---- MODULE Spec2Model ----
(***************************************************************************)
(* Model of the fuzzy row-grouping core of similar_row:                    *)
(*   src/src/edit_distance.rs  levenshtein_distance                        *)
(*   src/src/app.rs            cal_similarity,                             *)
(*                             cal_similarity_case_insentive,              *)
(*                             group_by_similarity_v2                      *)
(*                                                                         *)
(* A Rust String is modelled as the sequence of its code points.  Three    *)
(* code points are enough to tell bytes, code points and grapheme clusters *)
(* apart and to exercise case folding:                                     *)
(*   "a"      U+0061, 1 byte in UTF-8                                      *)
(*   "A"      U+0041, 1 byte, lower-cases to "a"                           *)
(*   "U0301"  U+0301 COMBINING ACUTE ACCENT, 2 bytes, Grapheme_Extend      *)
(* Row indices are the 0-based indices of the code; TLA+ sequences are     *)
(* 1-based, so row i of a Vec v is v[i + 1].                               *)
(***************************************************************************)
EXTENDS Integers, Sequences, FiniteSets, TLC

VARIABLES
    keys,            \* group_by_similarity_v2: keys
    similarity,      \* group_by_similarity_v2: similarity (the threshold)
    case_sensitive,  \* group_by_similarity_v2 / caller: case_sensitive
    groups,          \* group_by_similarity_v2: groups
    visited,         \* group_by_similarity_v2: visited
    g,               \* index of the group the outer loop is at
    lhs,             \* similarity harness: left argument
    rhs,             \* similarity harness: right argument
    edits,           \* number of single-grapheme edits that led from lhs to rhs
    score,           \* similarity harness: value returned for (lhs, rhs)
    pc,              \* position of the running function
    table,           \* TemplateApp.table: Option<Table>
    settings,        \* TemplateApp.edit_distance_settings
    indices,         \* TemplateApp.result_window.indices: Option<Promise>
    open,            \* TemplateApp.result_window.open
    workers,         \* the threads spawned by "Cal similarity", by request
    promises,        \* the channel of each request's (Sender, Promise) pair
    shown,           \* the rows the result window drew in the last frame
    exported,        \* the records of the file write_table wrote last
    panicked         \* the UI thread panicked: the process is gone

vars == <<keys, similarity, case_sensitive, groups, visited, g,
          lhs, rhs, edits, score, pc,
          table, settings, indices, open, workers, promises, shown,
          exported, panicked>>

groupVars == <<keys, similarity, case_sensitive, groups, visited, g>>
simVars == <<lhs, rhs, edits, score>>
appVars == <<table, settings, indices, open, workers, promises, shown,
             exported, panicked>>

\* Option<T>: None is the empty sequence, Some(x) the one-element sequence
None == <<>>
Some(x) == <<x>>

----------------------------------------------------------------------------
(* Bounds of the model *)

\* longest string (in code points) the similarity metric is applied to
MaxStrLen == 2
\* largest number of rows (keys) given to the grouping engine
MaxKeys == 3

CodePoints == {"a", "A", "U0301"}

RECURSIVE SeqsUpTo(_, _)
SeqsUpTo(S, n) ==
    IF n = 0 THEN {<<>>}
    ELSE LET shorter == SeqsUpTo(S, n - 1)
         IN  shorter \cup {Append(s, x) : s \in shorter, x \in S}

\* every string of at most MaxStrLen code points
Strings == SeqsUpTo(CodePoints, MaxStrLen)

\* the cell values rows are drawn from: empty, equal up to case, one edit
\* apart, and a multi-byte single-grapheme string
KeyPool == { <<>>, <<"a">>, <<"A">>, <<"a", "a">>, <<"a", "A">>,
             <<"A", "A">>, <<"a", "U0301">> }

\* thresholds the caller passes (DragValue clamps to 0..=100)
Thresholds == {0, 50, 66, 100}

----------------------------------------------------------------------------
(* Strings: str::len, str::to_lowercase, UnicodeSegmentation::graphemes *)

\* number of bytes of the UTF-8 encoding of one code point
Utf8Len(c) == IF c = "U0301" THEN 2 ELSE 1

\* str::len(): the length in BYTES
RECURSIVE str_len(_)
str_len(s) == IF s = <<>> THEN 0 ELSE Utf8Len(Head(s)) + str_len(Tail(s))

\* char lower-casing
LowerCp(c) == IF c = "A" THEN "a" ELSE c

\* str::to_lowercase()
to_lowercase(s) == [i \in 1..Len(s) |-> LowerCp(s[i])]

\* Grapheme_Extend property (UAX #29, rule GB9: no break before Extend)
IsExtend(c) == c = "U0301"

\* length in code points of the first extended grapheme cluster of s /= <<>>
RECURSIVE ClusterLen(_, _)
ClusterLen(s, n) ==
    IF n < Len(s) /\ IsExtend(s[n + 1]) THEN ClusterLen(s, n + 1) ELSE n

\* left.graphemes(true).collect(): the extended grapheme clusters of s
RECURSIVE graphemes(_)
graphemes(s) ==
    IF s = <<>> THEN <<>>
    ELSE LET n == ClusterLen(s, 1)
         IN  <<SubSeq(s, 1, n)>> \o graphemes(SubSeq(s, n + 1, Len(s)))

----------------------------------------------------------------------------
(* edit_distance.rs *)

min(x, y) == IF x <= y THEN x ELSE y
max(x, y) == IF x >= y THEN x ELSE y

\* dp_table with the dp_table[row][col - 1] neighbour left out of the minimum
RECURSIVE dp_table_no_left(_, _, _, _)
dp_table_no_left(l, r, row, col) ==
    IF col = 0 THEN row
    ELSE IF row = 0 THEN col
    ELSE IF l[col] = r[row]
         THEN dp_table_no_left(l, r, row - 1, col - 1)
         ELSE min(dp_table_no_left(l, r, row - 1, col - 1),
                  dp_table_no_left(l, r, row - 1, col)) + 1

\* the value the loops of levenshtein_distance leave in dp_table[row][col]
RECURSIVE dp_table(_, _, _, _)
dp_table(l, r, row, col) ==
    IF col = 0 THEN row
    ELSE IF row = 0 THEN col
    ELSE IF l[col] = r[row]
         THEN dp_table(l, r, row - 1, col - 1)
         ELSE min(dp_table(l, r, row - 1, col - 1),
                  min(dp_table(l, r, row - 1, col),
                      dp_table(l, r, row, col - 1))) + 1

levenshtein_distance(left, right) ==
    LET l == graphemes(left)
        r == graphemes(right)
        rows == Len(r) + 1
        cols == Len(l) + 1
    IN  dp_table(l, r, rows - 1, cols - 1)

----------------------------------------------------------------------------
(* app.rs: the similarity metric *)

\* max_len taken as the smaller length
max_len_min(left, right) == min(str_len(left), str_len(right))

\* max_len taken from the left argument alone
max_len_left_only(left, right) == str_len(left)

\* max_len of cal_similarity: the larger BYTE length
max_len(left, right) == max(str_len(left), str_len(right))

\* usize arithmetic: a negative difference stands for the overflow of
\* max_len - lev_dis (a panic in a debug build, a wrapped value in release)
cal_similarity(left, right) ==
    LET lev_dis == levenshtein_distance(left, right)
        ml == max_len(left, right)
    IN  IF ml = 0 THEN 100
        ELSE ((ml - lev_dis) * 100) \div ml

cal_similarity_case_insentive(left, right) ==
    cal_similarity(to_lowercase(left), to_lowercase(right))

\* cal that folds case whatever the flag says
cal_always_insensitive(cs, left, right) ==
    cal_similarity_case_insentive(left, right)

\* cal with the two branches exchanged
cal_swapped(cs, left, right) ==
    IF cs THEN cal_similarity_case_insentive(left, right)
    ELSE cal_similarity(left, right)

\* let cal = if case_sensitive { cal_similarity } else { ..._case_insentive }
cal(cs, left, right) ==
    IF cs THEN cal_similarity(left, right)
    ELSE cal_similarity_case_insentive(left, right)

----------------------------------------------------------------------------
(* app.rs: group_by_similarity_v2 *)

\* group.contains(&i)
contains(group, i) == \E k \in 1..Len(group) : group[k] = i

\* (0..keys.len()).map(|i| vec![i]).collect()
initial_groups(n) == [k \in 1..n |-> <<k - 1>>]

\* vec![false; keys.len()]
initial_visited(n) == [k \in 1..n |-> FALSE]

\* inner_loop with group.insert(0, i) in place of group.push(i)
RECURSIVE inner_loop_insert_front(_, _, _, _, _, _)
inner_loop_insert_front(ks, sim, cs, group, vis, i) ==
    IF i >= Len(ks) THEN [group |-> group, visited |-> vis]
    ELSE IF contains(group, i) \/ vis[i + 1]
         THEN inner_loop_insert_front(ks, sim, cs, group, vis, i + 1)
    ELSE IF cal(cs, ks[group[1] + 1], ks[i + 1]) >= sim
         THEN inner_loop_insert_front(ks, sim, cs, <<i>> \o group,
                                      [vis EXCEPT ![i + 1] = TRUE], i + 1)
    ELSE inner_loop_insert_front(ks, sim, cs, group, vis, i + 1)

\* inner_loop without the `|| visited[i]` test (the loop of group_by_similarity)
RECURSIVE inner_loop_no_visited(_, _, _, _, _, _)
inner_loop_no_visited(ks, sim, cs, group, vis, i) ==
    IF i >= Len(ks) THEN [group |-> group, visited |-> vis]
    ELSE IF contains(group, i)
         THEN inner_loop_no_visited(ks, sim, cs, group, vis, i + 1)
    ELSE IF cal(cs, ks[group[1] + 1], ks[i + 1]) >= sim
         THEN inner_loop_no_visited(ks, sim, cs, Append(group, i),
                                    [vis EXCEPT ![i + 1] = TRUE], i + 1)
    ELSE inner_loop_no_visited(ks, sim, cs, group, vis, i + 1)

\* the inner loop `for i in 0..keys.len()` run on one group, from i on:
\* the group and the visited vector it leaves
RECURSIVE inner_loop(_, _, _, _, _, _)
inner_loop(ks, sim, cs, group, vis, i) ==
    IF i >= Len(ks) THEN [group |-> group, visited |-> vis]
    ELSE IF contains(group, i) \/ vis[i + 1]
         THEN inner_loop(ks, sim, cs, group, vis, i + 1)
    ELSE IF cal(cs, ks[group[1] + 1], ks[i + 1]) >= sim
         THEN inner_loop(ks, sim, cs, Append(group, i),
                         [vis EXCEPT ![i + 1] = TRUE], i + 1)
    ELSE inner_loop(ks, sim, cs, group, vis, i + 1)

\* the outer loop `for group in groups.iter_mut()` from group k on
RECURSIVE outer_loop(_, _, _, _, _, _)
outer_loop(ks, sim, cs, gs, vis, k) ==
    IF k >= Len(gs) THEN gs
    ELSE LET out == inner_loop(ks, sim, cs, gs[k + 1], vis, 0)
         IN  outer_loop(ks, sim, cs, [gs EXCEPT ![k + 1] = out.group],
                        out.visited, k + 1)

\* the value a whole call returns
group_by_similarity_v2(ks, sim, cs) ==
    outer_loop(ks, sim, cs, initial_groups(Len(ks)),
               initial_visited(Len(ks)), 0)

----------------------------------------------------------------------------
(* app.rs: TemplateApp::default *)

\* EditDistanceSettings::default()
default_settings == [col_idx |-> 0, similarity |-> 100, case_sensitive |-> TRUE]

\* the application state outside the run of a single function
NoApp ==
    /\ table = None
    /\ settings = default_settings
    /\ indices = None
    /\ open = FALSE
    /\ workers = <<>>
    /\ promises = <<>>
    /\ shown = None
    /\ exported = None
    /\ panicked = FALSE

----------------------------------------------------------------------------
(* Specification Spec: one call of group_by_similarity_v2 *)

\* the keys the caller collects from the selected column, one per row
KeySeqs == SeqsUpTo(KeyPool, MaxKeys)

Init ==
    /\ keys \in KeySeqs
    /\ similarity \in Thresholds
    /\ case_sensitive \in BOOLEAN
    /\ groups = initial_groups(Len(keys))
    /\ visited = initial_visited(Len(keys))
    /\ g = 0
    /\ lhs = <<>>
    /\ rhs = <<>>
    /\ edits = 0
    /\ score = 0
    /\ pc = "loop"
    /\ NoApp

\* one iteration of `for group in groups.iter_mut()`
GroupIteration ==
    /\ pc = "loop"
    /\ g < Len(groups)
    /\ LET out == inner_loop(keys, similarity, case_sensitive,
                             groups[g + 1], visited, 0)
       IN  /\ groups' = [groups EXCEPT ![g + 1] = out.group]
           /\ visited' = out.visited
    /\ g' = g + 1
    /\ UNCHANGED <<keys, similarity, case_sensitive, simVars, pc, appVars>>

\* `return groups;`
Return ==
    /\ pc = "loop"
    /\ g = Len(groups)
    /\ pc' = "done"
    /\ UNCHANGED <<groupVars, simVars, appVars>>

Next == GroupIteration \/ Return

Spec == Init /\ [][Next]_vars

----------------------------------------------------------------------------
(* Specification SpecSim: the similarity metric applied to a pair of       *)
(* strings.  The pair is produced by single-grapheme edits, counted in     *)
(* `edits`, so that the distance the code computes can be compared with    *)
(* the number of edits that actually separate the two strings.             *)

\* edit scripts may be one step longer than the longest string
MaxEdits == MaxStrLen + 1

\* t is s with one element inserted
IsInsertion(s, t) ==
    /\ Len(t) = Len(s) + 1
    /\ \E p \in 1..Len(t) :
          s = SubSeq(t, 1, p - 1) \o SubSeq(t, p + 1, Len(t))

\* t is s with one element replaced by another
IsSubstitution(s, t) ==
    /\ Len(t) = Len(s)
    /\ \E p \in 1..Len(s) :
          /\ s[p] /= t[p]
          /\ \A q \in 1..Len(s) : q /= p => s[q] = t[q]

\* the grapheme sequences of two strings are one edit apart
OneGraphemeEdit(x, y) ==
    LET s == graphemes(x)
        t == graphemes(y)
    IN  IsInsertion(s, t) \/ IsInsertion(t, s) \/ IsSubstitution(s, t)

InitSim ==
    /\ lhs \in Strings
    /\ rhs = lhs
    /\ edits = 0
    /\ score = 0
    /\ case_sensitive = TRUE
    /\ keys = <<>>
    /\ similarity = 0
    /\ groups = <<>>
    /\ visited = <<>>
    /\ g = 0
    /\ pc = "edit"
    /\ NoApp

EditTo(n) ==
    /\ pc = "edit"
    /\ edits < MaxEdits
    /\ rhs' = n
    /\ edits' = edits + 1
    /\ UNCHANGED <<lhs, score, groupVars, pc, appVars>>

InsertGrapheme ==
    \E n \in Strings : IsInsertion(graphemes(rhs), graphemes(n)) /\ EditTo(n)

DeleteGrapheme ==
    \E n \in Strings : IsInsertion(graphemes(n), graphemes(rhs)) /\ EditTo(n)

SubstituteGrapheme ==
    \E n \in Strings : IsSubstitution(graphemes(rhs), graphemes(n)) /\ EditTo(n)

\* the call cal(&keys[group[0]], &keys[i]) on the pair (lhs, rhs)
CalSimilarity ==
    /\ pc = "edit"
    /\ \E cs \in BOOLEAN :
          /\ case_sensitive' = cs
          /\ score' = cal(cs, lhs, rhs)
    /\ pc' = "done"
    /\ UNCHANGED <<lhs, rhs, edits, keys, similarity, groups, visited, g,
                   appVars>>

NextSim == InsertGrapheme \/ DeleteGrapheme \/ SubstituteGrapheme \/ CalSimilarity

SpecSim == InitSim /\ [][NextSim]_vars

----------------------------------------------------------------------------
(* Properties of the similarity metric *)

\* the strings cal_similarity is applied to for the pair (lhs, rhs)
Folded(s) == IF case_sensitive THEN s ELSE to_lowercase(s)

GraphemeCount(s) == Len(graphemes(s))

\* the score as section 4.1 of the specification defines it
GraphemeScore(left, right) ==
    LET gmax == max(GraphemeCount(left), GraphemeCount(right))
    IN  IF gmax = 0 THEN 100
        ELSE ((gmax - levenshtein_distance(left, right)) * 100) \div gmax

\* C4 (as claimed): the score is 100 for two empty strings and otherwise
\* floor((max_len - edit_distance) * 100 / max_len) with max_len the larger
\* grapheme-cluster count; the empty string scores 0 against any other.
C4_GraphemeNormalised ==
    pc = "done" =>
        /\ score = GraphemeScore(Folded(lhs), Folded(rhs))
        /\ (lhs = <<>> /\ rhs /= <<>>) => score = 0

\* C5: the score is an integer in [0,100], and the edit distance never
\* exceeds the max_len cal_similarity subtracts it from.
C5_ScoreInRange ==
    pc = "done" =>
        /\ score \in 0..100
        /\ levenshtein_distance(Folded(lhs), Folded(rhs))
              <= max_len(Folded(lhs), Folded(rhs))

C5_Witness ==
    /\ pc = "done"
    /\ score = 0
    /\ lhs /= <<>> /\ rhs /= <<>>
    /\ levenshtein_distance(Folded(lhs), Folded(rhs))
          = max_len(Folded(lhs), Folded(rhs))

\* C6: levenshtein_distance is the least number of single-grapheme
\* insertions, deletions and substitutions between the two grapheme
\* sequences: no edit script leading from lhs to rhs is shorter than it,
\* and whenever the distance from any string t to rhs is positive some
\* single edit of rhs lowers it by one (so a script of exactly that length
\* exists); a string of one grapheme cluster, however many code points it
\* has, is at distance 1 from the empty string.
C6_MinimalEditScript ==
    /\ levenshtein_distance(lhs, rhs) <= edits
    /\ pc = "edit" =>
          \A t \in Strings : levenshtein_distance(t, rhs) > 0 =>
             \E n \in Strings :
                /\ OneGraphemeEdit(rhs, n)
                /\ levenshtein_distance(t, n) = levenshtein_distance(t, rhs) - 1
    /\ (lhs = <<>> /\ GraphemeCount(rhs) = 1) =>
          /\ levenshtein_distance(lhs, rhs) = 1
          /\ levenshtein_distance(rhs, lhs) = 1

C6_Witness ==
    /\ pc = "edit"
    /\ edits = levenshtein_distance(lhs, rhs)
    /\ edits = 2
    /\ GraphemeCount(lhs) = 1 /\ Len(lhs) = 2
    /\ GraphemeCount(rhs) = 2

\* C7: the score is symmetric in its two arguments, for either value of
\* case_sensitive.
C7_Symmetric ==
    pc = "done" => score = cal(case_sensitive, rhs, lhs)

C7_Witness ==
    /\ pc = "done"
    /\ ~case_sensitive
    /\ str_len(lhs) /= str_len(rhs)
    /\ score > 0 /\ score < 100

----------------------------------------------------------------------------
(* Properties of the value group_by_similarity_v2 returns *)

N == Len(keys)
Rows == 0..(N - 1)

\* the groups (by representative) that list row i
GroupsListing(i) == {k \in Rows : contains(groups[k + 1], i)}

\* row j was pushed into the group of another representative
Absorbed(j) ==
    \E k \in Rows : \E p \in 2..Len(groups[k + 1]) : groups[k + 1][p] = j

\* keys[i] and keys[j] are different strings that are equal once lower-cased
CaseVariants(i, j) ==
    /\ keys[i + 1] /= keys[j + 1]
    /\ to_lowercase(keys[i + 1]) = to_lowercase(keys[j + 1])

PairwiseDistinct == \A i, j \in Rows : i /= j => keys[i + 1] /= keys[j + 1]

\* C1 (as claimed): the returned list is a partition of 0..N: every row
\* index appears in exactly one group.
C1_Partition ==
    pc = "done" => \A i \in Rows : Cardinality(GroupsListing(i)) = 1

\* C2 (as claimed): a row that is a non-representative member of some group
\* has the singleton [j] as its own group.
C2_AbsorbedIsSingleton ==
    pc = "done" => \A j \in Rows : Absorbed(j) => groups[j + 1] = <<j>>

\* C3 (as claimed): with threshold 0 and case_sensitive = true a non-empty
\* key sequence yields exactly one group, holding 0..N-1 in ascending order.
C3_ThresholdZeroOneGroup ==
    (pc = "done" /\ similarity = 0 /\ case_sensitive /\ N > 0)
        => /\ Len(groups) = 1
           /\ groups[1] = [k \in 1..N |-> k - 1]

\* C8: the function returns exactly N groups, and the k-th group is
\* non-empty with k as its first element, absorbed or not.
C8_RepresentativeFirst ==
    pc = "done" =>
        /\ Len(groups) = Len(keys)
        /\ \A k \in Rows : Len(groups[k + 1]) >= 1 /\ groups[k + 1][1] = k

C8_Witness ==
    /\ pc = "done"
    /\ N >= 3
    /\ \E j \in Rows : Absorbed(j) /\ Len(groups[j + 1]) >= 2

\* C9: pairwise distinct keys grouped at threshold 100, case-sensitively,
\* yield N singleton groups, the k-th being [k].
C9_DistinctKeysSingletons ==
    (pc = "done" /\ similarity = 100 /\ case_sensitive /\ PairwiseDistinct)
        => groups = [k \in 1..N |-> <<k - 1>>]

C9_Witness ==
    /\ pc = "done" /\ similarity = 100 /\ case_sensitive /\ PairwiseDistinct
    /\ N >= 3
    /\ \E i, j \in Rows : i < j /\ CaseVariants(i, j)
    /\ \E i \in Rows : str_len(keys[i + 1]) > Len(graphemes(keys[i + 1]))

\* C10: two rows i < j whose keys differ only by case: at threshold 100 and
\* case_sensitive = false row j is listed in a group with row i, which is the
\* group of row i itself unless a still earlier row already claimed both;
\* with case_sensitive = true neither is listed in the other's group.  With
\* case_sensitive = false membership is decided by the case-sensitive score
\* of the lower-cased keys.
C10_CaseFolding ==
    pc = "done" =>
        /\ similarity = 100 =>
             \A i, j \in Rows : (i < j /\ CaseVariants(i, j)) =>
                IF case_sensitive
                THEN /\ ~contains(groups[i + 1], j)
                     /\ ~contains(groups[j + 1], i)
                ELSE /\ \E k \in Rows : /\ contains(groups[k + 1], i)
                                        /\ contains(groups[k + 1], j)
                     /\ (\A h \in 0..(i - 1) :
                            to_lowercase(keys[h + 1]) /= to_lowercase(keys[i + 1]))
                        => contains(groups[i + 1], j)
        /\ ~case_sensitive =>
             /\ \A k \in Rows : \A p \in 2..Len(groups[k + 1]) :
                    cal_similarity(to_lowercase(keys[k + 1]),
                                   to_lowercase(keys[groups[k + 1][p] + 1]))
                        >= similarity
             /\ \A j \in 1..(N - 1) :
                    contains(groups[1], j) <=>
                        cal_similarity(to_lowercase(keys[1]),
                                       to_lowercase(keys[j + 1])) >= similarity

C10_Witness ==
    /\ pc = "done" /\ similarity = 100 /\ ~case_sensitive
    /\ \E i, j \in Rows : /\ i < j /\ CaseVariants(i, j)
                          /\ contains(groups[i + 1], j)
    /\ \E i, j \in Rows : /\ 0 < i /\ i < j /\ CaseVariants(i, j)
                          /\ ~contains(groups[i + 1], j)

\* row i is a non-representative member of the group of a representative
\* smaller than r
AbsorbedBefore(i, r) ==
    \E k \in 0..(r - 1) : \E p \in 2..Len(groups[k + 1]) : groups[k + 1][p] = i

\* the rows the group of representative r is claimed to take in
ExpectedMembers(r) ==
    {i \in Rows \ {r} :
        /\ cal(case_sensitive, keys[r + 1], keys[i + 1]) >= similarity
        /\ ~AbsorbedBefore(i, r)}

\* the representatives that list row i as a non-representative member
AbsorbedBy(i) ==
    {k \in Rows : \E p \in 2..Len(groups[k + 1]) : groups[k + 1][p] = i}

\* C13: the group of every representative r is r followed, in ascending
\* order, by exactly the rows i /= r that score at least the threshold
\* against keys[r] and are not non-representative members of a group with a
\* smaller representative; so no row is a non-representative member of two
\* groups and no group lists a row twice.
C13_GroupContents ==
    pc = "done" =>
        /\ \A r \in Rows :
              LET grp == groups[r + 1]
              IN  /\ grp[1] = r
                  /\ Len(grp) = 1 + Cardinality(ExpectedMembers(r))
                  /\ {grp[p] : p \in 2..Len(grp)} = ExpectedMembers(r)
                  /\ \A p \in 2..(Len(grp) - 1) : grp[p] < grp[p + 1]
                  /\ \A p, q \in 1..Len(grp) : p /= q => grp[p] /= grp[q]
        /\ \A i \in Rows : Cardinality(AbsorbedBy(i)) <= 1

C13_Witness ==
    /\ pc = "done"
    /\ \E r \in Rows : r > 0 /\ Len(groups[r + 1]) >= 2
    /\ \E r \in Rows :
          /\ r > 0
          /\ \E i \in Rows \ {r} :
                /\ cal(case_sensitive, keys[r + 1], keys[i + 1]) >= similarity
                /\ AbsorbedBefore(i, r)

----------------------------------------------------------------------------
(* app.rs: write_table.  A record is a sequence of fields, a field a       *)
(* string; the csv writer is given records whose length is that of the     *)
(* header, since read_table only accepts rows as long as the header.       *)

Digits == <<"0", "1", "2", "3", "4", "5", "6", "7", "8", "9">>

\* usize::to_string(): the decimal digits, most significant first
RECURSIVE to_string(_)
to_string(n) ==
    IF n < 10 THEN <<Digits[n + 1]>>
    ELSE to_string(n \div 10) \o <<Digits[(n % 10) + 1]>>

\* "Index".to_string()
IndexHeader == <<"I", "n", "d", "e", "x">>

\* [""].repeat(cols)
empty_row(cols) == [c \in 1..cols |-> <<>>]

\* the loop `for r_idx in group` from member p on: the records written, and
\* whether table.rows[*r_idx] panicked (index out of bounds)
RECURSIVE write_group(_, _, _)
write_group(t, group, p) ==
    IF p > Len(group) THEN [records |-> <<>>, panicked |-> FALSE]
    ELSE IF group[p] >= Len(t.rows) THEN [records |-> <<>>, panicked |-> TRUE]
    ELSE LET row == <<to_string(group[p])>> \o t.rows[group[p] + 1]
             rest == write_group(t, group, p + 1)
         IN  [records |-> <<row>> \o rest.records, panicked |-> rest.panicked]

\* the loop `for group in groups` from group k on
RECURSIVE write_groups(_, _, _, _)
write_groups(t, gs, cols, k) ==
    IF k > Len(gs) THEN [records |-> <<>>, panicked |-> FALSE]
    ELSE LET grp == write_group(t, gs[k], 1)
         IN  IF grp.panicked THEN grp
             ELSE LET rest == write_groups(t, gs, cols, k + 1)
                  IN  [records |-> grp.records \o <<empty_row(cols)>>
                                     \o rest.records,
                       panicked |-> rest.panicked]

\* write_table with the separator as wide as the table, not as the header
\* written to the file
write_table_narrow_separator(t, gs) ==
    LET headers == <<IndexHeader>> \o t.headers
        body == write_groups(t, gs, Len(t.headers), 1)
    IN  [records |-> <<headers>> \o body.records, panicked |-> body.panicked]

\* the records write_table hands to the csv writer (all of them flushed, on
\* a panic by the writer's Drop), and whether it panicked
write_table(t, gs) ==
    LET headers == <<IndexHeader>> \o t.headers
        cols == Len(headers)
        body == write_groups(t, gs, cols, 1)
    IN  [records |-> <<headers>> \o body.records, panicked |-> body.panicked]

----------------------------------------------------------------------------
(* Specification SpecExport: write_table applied to a table and to the     *)
(* groups computed from its first column.                                  *)

\* the rows of the csv files: the key in the first column, a second cell
RowPool == { << <<"a">>, <<"a", "a">> >>,
             << <<"A">>, <<>> >>,
             << <<"a", "A">>, <<"U0301">> >> }

TableHeaders == << <<"a">>, <<"A", "a">> >>

\* what read_table returns for a file of at most MaxKeys rows
ExportTables ==
    {[file |-> rows, headers |-> TableHeaders, rows |-> rows] :
        rows \in SeqsUpTo(RowPool, MaxKeys)}

\* the keys "Cal similarity" collects: column col_idx of every row
column_keys(t, col_idx) == [k \in 1..Len(t.rows) |-> t.rows[k][col_idx + 1]]

InitExport ==
    /\ table \in {Some(t) : t \in ExportTables}
    /\ \E sim \in Thresholds, cs \in BOOLEAN :
          /\ similarity = sim
          /\ case_sensitive = cs
          /\ groups = group_by_similarity_v2(column_keys(table[1], 0), sim, cs)
    /\ keys = column_keys(table[1], 0)
    /\ visited = <<>>
    /\ g = 0
    /\ lhs = <<>>
    /\ rhs = <<>>
    /\ edits = 0
    /\ score = 0
    /\ settings = default_settings
    /\ indices = None
    /\ open = FALSE
    /\ workers = <<>>
    /\ promises = <<>>
    /\ shown = None
    /\ exported = None
    /\ panicked = FALSE
    /\ pc = "export"

\* write_table(&f, t, indices)
WriteTable ==
    /\ pc = "export"
    /\ LET out == write_table(table[1], groups)
       IN  /\ exported' = Some(out.records)
           /\ panicked' = out.panicked
    /\ pc' = "done"
    /\ UNCHANGED <<groupVars, simVars, table, settings, indices, open,
                   workers, promises, shown>>

NextExport == WriteTable

SpecExport == InitExport /\ [][NextExport]_vars

----------------------------------------------------------------------------
(* Properties of the exported file *)

\* the value of a decimal digit string
RECURSIVE ParseUsize(_)
ParseUsize(str) ==
    IF str = <<>> THEN 0
    ELSE 10 * ParseUsize(SubSeq(str, 1, Len(str) - 1))
         + (CHOOSE d \in 0..9 : Digits[d + 1] = str[Len(str)])

\* number of records written for the groups before group k
RECURSIVE RecordsBefore(_, _)
RecordsBefore(gs, k) ==
    IF k <= 1 THEN 0 ELSE RecordsBefore(gs, k - 1) + Len(gs[k - 1]) + 1

RECURSIVE Flatten(_)
Flatten(gs) == IF gs = <<>> THEN <<>> ELSE Head(gs) \o Flatten(Tail(gs))

IsBlank(rec) == \A c \in 1..Len(rec) : rec[c] = <<>>
NotBlank(rec) == ~IsBlank(rec)

\* C12: the file holds the header ["Index", ...headers]; then, group by
\* group in result order, one record [index, ...cells of that row] per
\* member in group order and after them one record of empty fields as wide
\* as the header; without the blank records and the Index column every
\* exported row is the table row at its index.
C12_ExportedRecords ==
    pc = "done" =>
        LET t == table[1]
            out == exported[1]
            body == Tail(out)
            data == SelectSeq(body, NotBlank)
        IN  /\ ~panicked
            /\ out[1] = <<IndexHeader>> \o t.headers
            /\ Len(body) = RecordsBefore(groups, Len(groups) + 1)
            /\ \A k \in 1..Len(groups) :
                  /\ \A p \in 1..Len(groups[k]) :
                        body[RecordsBefore(groups, k) + p]
                            = <<to_string(groups[k][p])>>
                                 \o t.rows[groups[k][p] + 1]
                  /\ LET sep == body[RecordsBefore(groups, k) + Len(groups[k]) + 1]
                     IN  IsBlank(sep) /\ Len(sep) = Len(out[1])
            /\ Len(data) = Len(Flatten(groups))
            /\ \A n \in 1..Len(data) :
                  /\ ParseUsize(data[n][1]) = Flatten(groups)[n]
                  /\ Tail(data[n]) = t.rows[ParseUsize(data[n][1]) + 1]

C12_Witness ==
    /\ pc = "done"
    /\ Len(groups) >= 3
    /\ \E k \in 1..Len(groups) : Len(groups[k]) >= 2
    /\ \E k \in 1..Len(groups) : Len(groups[k]) = 1
    /\ \E n \in 1..Len(table[1].rows) : table[1].rows[n][2] = <<>>

----------------------------------------------------------------------------
(* Specification SpecApp: TemplateApp::update and the worker threads.      *)
(* The UI thread runs the click handlers and the result window one after   *)
(* the other; the workers run between them.  A panic of the UI thread      *)
(* (an index out of bounds) ends the process and with it every worker.     *)
(* Log messages and the table display settings are not modelled, and the   *)
(* selected column stays 0.                                                *)

\* largest number of "Cal similarity" clicks
MaxRequests == 2

\* the csv files the user can open: three rows, one row
AppTables ==
    {t \in ExportTables :
        \/ t.rows = << << <<"a">>, <<"a", "a">> >>,
                       << <<"A">>, <<>> >>,
                       << <<"a", "A">>, <<"U0301">> >> >>
        \/ t.rows = << << <<"A">>, <<>> >> >>}

\* the values the Similarity DragValue is dragged to
AppThresholds == {50, 100}

\* eframe::get_value(storage, APP_KEY): the settings of an earlier session
StoredSettings ==
    {[col_idx |-> 0, similarity |-> sim, case_sensitive |-> cs] :
        sim \in AppThresholds, cs \in BOOLEAN}

InitApp ==
    /\ table = None
    /\ settings \in StoredSettings
    /\ indices = None
    /\ open = FALSE
    /\ workers = <<>>
    /\ promises = <<>>
    /\ shown = None
    /\ exported = None
    /\ panicked = FALSE
    /\ keys = <<>>
    /\ similarity = 0
    /\ case_sensitive = TRUE
    /\ groups = <<>>
    /\ visited = <<>>
    /\ g = 0
    /\ lhs = <<>>
    /\ rhs = <<>>
    /\ edits = 0
    /\ score = 0
    /\ pc = "app"

\* "Open" (menu or central panel) with a file read_table accepts
OpenFile ==
    /\ ~panicked
    /\ \E t \in AppTables : table' = Some(t)
    /\ UNCHANGED <<groupVars, simVars, pc, settings, indices, open, workers,
                   promises, shown, exported, panicked>>

\* the Similarity DragValue, shown while a table is loaded
SetSimilarity ==
    /\ ~panicked
    /\ table /= None
    /\ \E v \in AppThresholds : settings' = [settings EXCEPT !.similarity = v]
    /\ UNCHANGED <<groupVars, simVars, pc, table, indices, open, workers,
                   promises, shown, exported, panicked>>

\* the CaseSensitive checkbox
ToggleCaseSensitive ==
    /\ ~panicked
    /\ table /= None
    /\ settings' = [settings EXCEPT !.case_sensitive = ~settings.case_sensitive]
    /\ UNCHANGED <<groupVars, simVars, pc, table, indices, open, workers,
                   promises, shown, exported, panicked>>

\* the thread "Cal similarity" spawns, before its first step; `file` records
\* the table the keys were taken from
new_worker(t, st) ==
    LET ks == column_keys(t, st.col_idx)
    IN  [keys |-> ks, similarity |-> st.similarity,
         case_sensitive |-> st.case_sensitive,
         groups |-> initial_groups(Len(ks)),
         visited |-> initial_visited(Len(ks)),
         g |-> 0, pc |-> "loop", sends |-> 0, file |-> t.file]

\* "Cal similarity": snapshot the keys, replace the promise, spawn the worker
ClickCalSimilarity ==
    /\ ~panicked
    /\ table /= None
    /\ Len(workers) < MaxRequests
    /\ workers' = Append(workers, new_worker(table[1], settings))
    /\ promises' = Append(promises, None)
    /\ indices' = Some(Len(workers) + 1)
    /\ UNCHANGED <<groupVars, simVars, pc, table, settings, open, shown,
                   exported, panicked>>

\* a worker runs one iteration of the outer loop of group_by_similarity_v2
WorkerIteration(id) ==
    /\ ~panicked
    /\ workers[id].pc = "loop"
    /\ workers[id].g < Len(workers[id].groups)
    /\ LET w == workers[id]
           out == inner_loop(w.keys, w.similarity, w.case_sensitive,
                             w.groups[w.g + 1], w.visited, 0)
       IN  workers' = [workers EXCEPT
                          ![id].groups = [w.groups EXCEPT ![w.g + 1] = out.group],
                          ![id].visited = out.visited,
                          ![id].g = w.g + 1]
    /\ UNCHANGED <<groupVars, simVars, pc, table, settings, indices, open,
                   promises, shown, exported, panicked>>

\* group_by_similarity_v2 returned: sender.send(res); ctx.request_repaint()
WorkerSend(id) ==
    /\ ~panicked
    /\ workers[id].pc = "loop"
    /\ workers[id].g = Len(workers[id].groups)
    /\ promises' = [promises EXCEPT ![id] = Some(workers[id].groups)]
    /\ workers' = [workers EXCEPT ![id].pc = "done",
                                  ![id].sends = workers[id].sends + 1]
    /\ UNCHANGED <<groupVars, simVars, pc, table, settings, indices, open,
                   shown, exported, panicked>>

\* task.ready() of the promise the result window holds
ready_result ==
    IF indices = None THEN None ELSE promises[indices[1]]

\* the result window of one frame; body.rows calls the row closure for the
\* rows lo+1..hi of the flattened list that are scrolled into view
ShowResult ==
    /\ ~panicked
    /\ ready_result /= None
    /\ open' = TRUE
    /\ IF table = None
       THEN UNCHANGED <<shown, panicked>>
       ELSE LET flat == Flatten(ready_result[1])
                t == table[1]
            IN  \E lo \in 0..Len(flat) : \E hi \in lo..Len(flat) :
                   IF \E n \in (lo + 1)..hi : flat[n] >= Len(t.rows)
                   THEN /\ panicked' = TRUE
                        /\ UNCHANGED shown
                   ELSE /\ shown' = Some([id |-> indices[1], file |-> t.file,
                                          rows |-> [n \in 1..(hi - lo) |->
                                             <<to_string(flat[lo + n])>>
                                                \o t.rows[flat[lo + n] + 1]]])
                        /\ UNCHANGED panicked
    /\ UNCHANGED <<groupVars, simVars, pc, table, settings, indices, workers,
                   promises, exported>>

\* "Export" in the result window, with an output file chosen
ClickExport ==
    /\ ~panicked
    /\ ready_result /= None
    /\ table /= None
    /\ LET out == write_table(table[1], ready_result[1])
       IN  /\ exported' = Some(out.records)
           /\ panicked' = out.panicked
    /\ UNCHANGED <<groupVars, simVars, pc, table, settings, indices, open,
                   workers, promises, shown>>

NextApp ==
    \/ OpenFile
    \/ SetSimilarity
    \/ ToggleCaseSensitive
    \/ ClickCalSimilarity
    \/ \E id \in 1..Len(workers) : WorkerIteration(id)
    \/ \E id \in 1..Len(workers) : WorkerSend(id)
    \/ ShowResult
    \/ ClickExport

SpecApp == InitApp /\ [][NextApp]_vars

----------------------------------------------------------------------------
(* Properties of the application *)

Requests == 1..Len(workers)

\* the list a whole run of request id computes
FullResult(id) ==
    group_by_similarity_v2(workers[id].keys, workers[id].similarity,
                           workers[id].case_sensitive)

\* the part of C11 that does not depend on the process staying alive: a
\* promise is ready only once its worker has finished and sent, it then
\* holds the complete list, no worker sends twice, and the result window
\* draws rows of a complete list only
C11_Safety ==
    /\ \A id \in Requests :
          /\ workers[id].sends <= 1
          /\ promises[id] /= None <=> workers[id].pc = "done"
          /\ workers[id].pc = "done" => workers[id].sends = 1
          /\ promises[id] /= None => promises[id][1] = FullResult(id)
    /\ shown /= None =>
          LET flat == Flatten(FullResult(shown[1].id))
              rows == shown[1].rows
          IN  \E lo \in 0..(Len(flat) - Len(rows)) :
                 \A n \in 1..Len(rows) : ParseUsize(rows[n][1]) = flat[lo + n]

\* C11 (as claimed): every request's worker delivers its result exactly
\* once and only when the whole list is computed, the promise reads as not
\* ready until then, and a started run always runs to completion, replaced
\* promise or not: a worker that has not delivered can take its next step.
C11_RunsToCompletion ==
    /\ C11_Safety
    /\ \A id \in Requests :
          workers[id].pc /= "done" =>
             ENABLED (WorkerIteration(id) \/ WorkerSend(id))

\* C14 (as claimed): whenever the result window holds a ready result to
\* draw or export, every row index in it is an index into the rows of the
\* loaded table, and that table is the one the keys were taken from.
C14_ResultMatchesTable ==
    /\ ~panicked
    /\ (ready_result /= None /\ table /= None) =>
          /\ \A n \in 1..Len(Flatten(ready_result[1])) :
                Flatten(ready_result[1])[n] < Len(table[1].rows)
          /\ workers[indices[1]].file = table[1].file

====
